---- MODULE Spec2Model ----
(***************************************************************************)
(* Transaction orchestration (src/core/tx.rs) and the swap entry points    *)
(* with their slippage arithmetic (src/dex/pump.rs) of the copy-trading    *)
(* bot.                                                                    *)
(*                                                                         *)
(* The orchestration part is a sequential program whose collaborators (the *)
(* ledger RPC, the bundle relay, the tip registry) answer                  *)
(* nondeterministically.  batch_send_transactions drives one call of       *)
(* new_signed_and_send per batch item; jito_confirm and                    *)
(* send_transaction_with_confirmation are inlined as steps of that call.   *)
(*                                                                         *)
(* Spec           batches under the small configurations                   *)
(* LiveSpec       the same program with every step eventually taken        *)
(* CfgSpec        one call under every configuration, the default read     *)
(*                from the environment variables UNIT_PRICE and UNIT_LIMIT *)
(* SlipSpec       the slippage functions applied to chosen amounts         *)
(* SwapSpec       Pump::swap, called directly or through pump_swap         *)
(* BatchSwapSpec  pump_swap_batch over short lists of requests             *)
(***************************************************************************)
EXTENDS Integers, Sequences, FiniteSets, TLC

VARIABLES
    \* ---- the environment
    env_unit_price,       \* env::var("UNIT_PRICE"): None or Some(string)
    env_unit_limit,       \* env::var("UNIT_LIMIT"): None or Some(string)
    \* ---- inputs of batch_send_transactions
    config_arg,           \* config: Option<TxConfig>
    config,               \* config.unwrap_or_default(), the same in every call:
                          \* TxConfig {unit_price, unit_limit, max_retries, use_jito}
    jito_client,          \* Option<Arc<JitoRpcClient>>: TRUE iff Some
    instruction_batches,  \* Vec<Vec<Instruction>>
    \* ---- locals of batch_send_transactions
    i,                    \* index (1-based) of the item being processed
    all_results,          \* Vec<String>
    batch_ret,            \* what batch_send_transactions returned
    \* ---- locals of the current new_signed_and_send call
    pc,                   \* position in the code
    instructions,         \* the (mutable) instruction list of the call
    recent_blockhash,     \* Hash fetched by the call
    versioned_tx,         \* the signed transaction
    results,              \* Vec<String>
    last_error,           \* Option<anyhow::Error>
    attempt,              \* loop variable of the retry loop
    ret,                  \* what the call returned
    log_fee,              \* the priority fee written to the log (lines 162-166)
    sent_txs,             \* what the call handed to send_bundle / send_transaction
    \* ---- locals of jito_confirm
    bundle_txs,           \* Vec<VersionedTransaction>
    bundle_id,            \* String returned by send_bundle
    jito_ret,             \* what jito_confirm returned
    tip_outcome,          \* how the joined tip resolution ended
    wait_outcome,         \* how the relay's confirmation wait ended
    \* ---- collaborator calls made by the current new_signed_and_send call
    calls,
    \* ---- items for which new_signed_and_send was invoked
    started,
    \* ---- slippage calculator (pump.rs)
    sl_pc,                \* which function has been applied
    sl_amount,            \* input_amount / amount_in: u64
    sl_bps,               \* slippage_bps
    sl_direction,         \* SwapDirection
    sl_min,               \* result of min_amount_with_slippage
    sl_max,               \* result of max_amount_with_slippage
    sl_amounts,           \* result of calculate_swap_amounts
    \* ---- Pump::swap and pump_swap (pump.rs)
    sw_pc,                \* position in the code
    sw_entry,             \* the function called: "pump_swap" or "Pump::swap"
    sw_mint,              \* mint: &str
    sw_amount_in,         \* amount_in: u64
    sw_slippage_bps,      \* slippage_bps: u64
    sw_direction_arg,     \* swap_direction: &str (pump_swap)
    sw_direction,         \* swap_direction: SwapDirection
    sw_rpc_client,        \* Pump.rpc_client: Option<Arc<RpcClient>>, TRUE iff Some
    sw_amounts,           \* what calculate_swap_amounts returned
    sw_calls,             \* network calls made and instruction builders entered
    sw_ret,               \* what the entry function returned
    \* ---- pump_swap_batch (pump.rs)
    sb_pc,                \* position in the code
    sb_swaps,             \* swaps: Vec<SwapRequest>
    sb_next,              \* index (1-based) of the request being processed
    sb_results,           \* results: Vec<Result<Vec<String>>>
    sb_attempted,         \* requests for which pump.swap was called
    sb_ret                \* what pump_swap_batch returned

tx_vars == <<env_unit_price, env_unit_limit, config_arg, config, jito_client,
             instruction_batches, i, all_results, batch_ret,
             pc, instructions, recent_blockhash, versioned_tx, results, last_error,
             attempt, ret, log_fee, sent_txs, bundle_txs, bundle_id, jito_ret,
             tip_outcome, wait_outcome, calls, started>>
sl_vars == <<sl_pc, sl_amount, sl_bps, sl_direction, sl_min, sl_max, sl_amounts>>
sw_vars == <<sw_pc, sw_entry, sw_mint, sw_amount_in, sw_slippage_bps, sw_direction_arg,
             sw_direction, sw_rpc_client, sw_amounts, sw_calls, sw_ret>>
sb_vars == <<sb_pc, sb_swaps, sb_next, sb_results, sb_attempted, sb_ret>>
pump_vars == <<sl_vars, sw_vars, sb_vars>>
vars == <<tx_vars, pump_vars>>

(***************************************************************************)
(* Bounds of the model.                                                    *)
(***************************************************************************)
MaxBatch == 3          \* longest instruction_batches
MaxLiveBatch == 2      \* longest instruction_batches whose termination is checked
MaxRetriesBound == 3   \* largest config.max_retries tried
MaxSmallAmount == 12   \* the amounts 0..MaxSmallAmount are tried, besides the edge amounts
MaxSmallBps == 3       \* the slippages 0..MaxSmallBps are tried, besides the edge slippages
MaxSwaps == 2          \* longest swaps of pump_swap_batch

(***************************************************************************)
(* Program constants.                                                      *)
(***************************************************************************)
DEFAULT_UNIT_PRICE == 1000
DEFAULT_UNIT_LIMIT == 300000
MAX_RETRIES == 3
TEN_THOUSAND == 10000
MAX_SLIPPAGE_BPS == 5000
DEFAULT_SLIPPAGE_BPS == 100

(***************************************************************************)
(* Values.                                                                 *)
(***************************************************************************)
None == [some |-> FALSE]
Some(v) == [some |-> TRUE, val |-> v]

Ok(v) == [tag |-> "Ok", val |-> v]
Err(e) == [tag |-> "Err", err |-> e]
NotReturned == [tag |-> "none"]

\* anyhow errors: the stage that raised it, its cause, and (for a broadcast
\* attempt) the number of the attempt that raised it.
Error(src, kind, n) == [src |-> src, kind |-> kind, attempt |-> n]
GenericError == Error("generic", "All transaction attempts failed", 0)

(***************************************************************************)
(* Unsigned machine integers (u64, u32).                                   *)
(*                                                                         *)
(* A value is a sequence of limbs in base 10^4, least significant first and  *)
(* without leading zero limbs (zero is the empty sequence), so that the    *)
(* whole 64-bit range, the overflow of checked_mul included, is computed   *)
(* exactly with small integers.  slippage_bps is a plain integer.          *)
(* The same representation serves u32 (unit_limit).                        *)
(***************************************************************************)
Base == 100 * 100

\* u64::MAX = 18446744073709551615
U64_MAX == <<1615, 955, 737, 6744, 1844>>
\* u32::MAX = 4294967295
U32_MAX == <<7295, 9496, 42>>

RECURSIVE FromInt(_)
FromInt(n) == IF n = 0 THEN <<>> ELSE <<n % Base>> \o FromInt(n \div Base)

RECURSIVE Norm(_)
Norm(x) ==
    IF x = <<>> THEN <<>>
    ELSE IF x[Len(x)] = 0 THEN Norm(SubSeq(x, 1, Len(x) - 1)) ELSE x

\* x <= y
Leq(x, y) ==
    \/ Len(x) < Len(y)
    \/ /\ Len(x) = Len(y)
       /\ \/ x = y
          \/ \E k \in 1..Len(x) :
                /\ x[k] < y[k]
                /\ \A j \in (k + 1)..Len(x) : x[j] = y[j]

\* x * k + carry, for a small k
RECURSIVE MulCarry(_, _, _)
MulCarry(x, k, carry) ==
    IF x = <<>> THEN FromInt(carry)
    ELSE LET t == Head(x) * k + carry
         IN  <<t % Base>> \o MulCarry(Tail(x), k, t \div Base)

\* the remainder of the limbs idx..Len(x) of x under division by d
RECURSIVE RemFrom(_, _, _)
RemFrom(x, d, idx) ==
    IF idx > Len(x) THEN 0 ELSE (RemFrom(x, d, idx + 1) * Base + x[idx]) % d

\* a variant that saturates where checked_mul reports the overflow
CheckedMul_Saturating(x, k) ==
    LET product == Norm(MulCarry(x, k, 0))
    IN  IF Leq(product, U64_MAX) THEN Some(product) ELSE Some(U64_MAX)

\* u64::checked_mul by a small factor
CheckedMul(x, k) ==
    LET product == Norm(MulCarry(x, k, 0))
    IN  IF Leq(product, U64_MAX) THEN Some(product) ELSE None

\* x + y + carry
RECURSIVE AddCarry(_, _, _)
AddCarry(x, y, carry) ==
    IF x = <<>> /\ y = <<>> THEN FromInt(carry)
    ELSE LET a == IF x = <<>> THEN 0 ELSE Head(x)
             b == IF y = <<>> THEN 0 ELSE Head(y)
             t == a + b + carry
         IN  <<t % Base>> \o AddCarry(IF x = <<>> THEN <<>> ELSE Tail(x),
                                      IF y = <<>> THEN <<>> ELSE Tail(y),
                                      t \div Base)

\* x * y, limb by limb: x times the lowest limb of y, plus Base times x times
\* the rest of y (each intermediate value is bound once, as the element of a
\* singleton set)
RECURSIVE Mul(_, _)
Mul(x, y) ==
    IF y = <<>> THEN <<>>
    ELSE CHOOSE product \in
             {Norm(sum) : sum \in {AddCarry(low, high, 0) :
                                     low \in {MulCarry(x, Head(y), 0)},
                                     high \in {<<0>> \o Mul(x, Tail(y))}}} : TRUE

\* u64::saturating_mul
SaturatingMul(x, y) ==
    CHOOSE result \in {IF Leq(product, U64_MAX) THEN product ELSE U64_MAX :
                          product \in {Mul(x, y)}} : TRUE

\* u64::checked_div by a small divisor
CheckedDiv(x, d) ==
    IF d = 0 THEN None
    ELSE Some(Norm([idx \in 1..Len(x) |->
                      (RemFrom(x, d, idx + 1) * Base + x[idx]) \div d]))

\* Option::and_then(|result| result.checked_div(d))
AndThenCheckedDiv(opt, d) == IF opt.some THEN CheckedDiv(opt.val, d) ELSE None

\* Option::ok_or(msg)
OkOr(opt, msg) == IF opt.some THEN Ok(opt.val) ELSE Err(msg)

(***************************************************************************)
(* Transactions.                                                           *)
(***************************************************************************)
Keypair == "wallet"
Blockhashes == {"h1", "h2"}
TipAccounts == {"tipA", "tipB"}
TipValue == "tip_lamports"

\* ComputeBudgetInstruction::set_compute_unit_limit / set_compute_unit_price
SetComputeUnitLimit(units) ==
    [program |-> "ComputeBudget", kind |-> "SetComputeUnitLimit", value |-> units]
SetComputeUnitPrice(price) ==
    [program |-> "ComputeBudget", kind |-> "SetComputeUnitPrice", value |-> price]
\* an instruction supplied by the caller
SwapIx(k) == [program |-> "Pump", kind |-> "swap", value |-> k]
\* system_instruction::transfer
Transfer(from, to, lamports) ==
    [program |-> "System", kind |-> "transfer", value |-> <<from, to, lamports>>]

\* Transaction::new_signed_with_payer(instructions, Some(payer), [signer], blockhash)
NewSignedWithPayer(ixs, payer, signer, blockhash) ==
    [instructions |-> ixs, payer |-> payer, signer |-> signer, blockhash |-> blockhash]
NoTx == [instructions |-> <<>>, payer |-> "none", signer |-> "none", blockhash |-> "none"]

\* the first signature of a transaction, as a string
SignatureOf(tx) == [kind |-> "signature", of |-> tx]
\* the relay's identifier of a bundle
BundleIdOf(bundle) == [kind |-> "bundle_id", of |-> bundle]
NoId == [kind |-> "none"]

\* Vec::insert(index, element), index counted from 0
VecInsert(v, index, element) ==
    SubSeq(v, 1, index) \o <<element>> \o SubSeq(v, index + 1, Len(v))

NoCalls == [get_latest_blockhash |-> 0, sign |-> 0, jito_confirm |-> 0,
            tip |-> 0, send_bundle |-> 0, wait |-> 0, broadcast |-> 0,
            send_with_confirmation |-> 0, sleep |-> 0]

\* Pump::swap: no account fetched, no instruction builder entered
NoSwapCalls == [get_bonding_curve_account |-> 0, build_instructions |-> 0]

\* the k-th item of the batch: k-1 (mod 3) caller instructions
ItemInstructions(k) == [j \in 1..((k - 1) % 3) |-> SwapIx(j)]

\* the configurations tried; config = None is TxConfig::default(), which with
\* UNIT_PRICE and UNIT_LIMIT unset is the one with price 1000, 3 retries, use_jito
Configs ==
    [unit_price : {FromInt(0), FromInt(DEFAULT_UNIT_PRICE)},
     unit_limit : {FromInt(DEFAULT_UNIT_LIMIT)},
     max_retries : 0..MaxRetriesBound, use_jito : BOOLEAN]

(***************************************************************************)
(* tx.rs: pure parts.                                                      *)
(***************************************************************************)
\* strings are sequences of characters
DigitChars == <<"0", "1", "2", "3", "4", "5", "6", "7", "8", "9">>
IsDigit(c) == \E d \in 1..Len(DigitChars) : DigitChars[d] = c
DigitOf(c) == (CHOOSE d \in 1..Len(DigitChars) : DigitChars[d] = c) - 1

\* the digits of an unsigned decimal literal, accumulated with overflow check
RECURSIVE ParseDigits(_, _, _)
ParseDigits(str, acc, max) ==
    IF str = <<>> THEN Some(acc)
    ELSE IF ~IsDigit(Head(str)) THEN None
    ELSE LET next == Norm(MulCarry(acc, 10, DigitOf(Head(str))))
         IN  IF Leq(next, max) THEN ParseDigits(Tail(str), next, max) ELSE None

\* u64::from_str / u32::from_str (.ok()): an optional '+', then one or more
\* decimal digits, the value at most max
FromStr(str, max) ==
    IF str = <<>> THEN None
    ELSE LET digits == IF Head(str) = "+" THEN Tail(str) ELSE str
         IN  IF digits = <<>> THEN None ELSE ParseDigits(digits, <<>>, max)

\* Option::and_then(|v| from_str(&v).ok())
AndThenFromStr(opt, max) == IF opt.some THEN FromStr(opt.val, max) ELSE None

\* Option::unwrap_or
UnwrapOr(opt, default) == IF opt.some THEN opt.val ELSE default

get_unit_price(env) == UnwrapOr(AndThenFromStr(env, U64_MAX), FromInt(DEFAULT_UNIT_PRICE))

get_unit_limit(env) == UnwrapOr(AndThenFromStr(env, U32_MAX), FromInt(DEFAULT_UNIT_LIMIT))

\* impl Default for TxConfig
TxConfigDefault(unit_price_var, unit_limit_var) ==
    [unit_price |-> get_unit_price(unit_price_var),
     unit_limit |-> get_unit_limit(unit_limit_var),
     max_retries |-> MAX_RETRIES,
     use_jito |-> TRUE]

\* line 159: config.unwrap_or_default()
UnwrapOrDefault(opt, unit_price_var, unit_limit_var) ==
    IF opt.some THEN opt.val ELSE TxConfigDefault(unit_price_var, unit_limit_var)

\* a variant that yields 0 where the product overflows
calculate_priority_fee_ZeroOnOverflow(unit_price, unit_limit) ==
    LET product == Mul(unit_price, unit_limit)
    IN  IF Leq(product, U64_MAX) THEN product ELSE FromInt(0)

\* calculate_priority_fee; unit_limit as u64 keeps the value
calculate_priority_fee(unit_price, unit_limit) == SaturatingMul(unit_price, unit_limit)


\* a variant that inserts the price ahead of the limit
AddComputeBudgetInstructions_PriceFirst(ixs, cfg) ==
    LET with_limit == VecInsert(ixs, 0, SetComputeUnitLimit(cfg.unit_limit))
    IN  IF cfg.unit_price # FromInt(0)
        THEN VecInsert(with_limit, 0, SetComputeUnitPrice(cfg.unit_price))
        ELSE with_limit

\* add_compute_budget_instructions (it always returns Ok(()))
AddComputeBudgetInstructions(ixs, cfg) ==
    LET with_limit == VecInsert(ixs, 0, SetComputeUnitLimit(cfg.unit_limit))
    IN  IF cfg.unit_price # FromInt(0)
        THEN VecInsert(with_limit, 1, SetComputeUnitPrice(cfg.unit_price))
        ELSE with_limit

\* a variant that takes the bundle path whenever a client is supplied
JitoEnabled_IgnoresFlag(cfg, client) == client

\* the guard of the bundle path: config.use_jito && jito_client.is_some()
JitoEnabled(cfg, client) == cfg.use_jito /\ client

\* a variant that puts the tip transaction first
BuildBundle_TipFirst(tx, keypair, tip_account, tip_value, block_hash) ==
    LET tip_instruction == Transfer(keypair, tip_account, tip_value)
        tip_tx == NewSignedWithPayer(<<tip_instruction>>, keypair, keypair, block_hash)
    IN  Append(Append(<<>>, tip_tx), tx)

\* jito_confirm: bundle_txs after the two push calls
BuildBundle(tx, keypair, tip_account, tip_value, block_hash) ==
    LET tip_instruction == Transfer(keypair, tip_account, tip_value)
        tip_tx == NewSignedWithPayer(<<tip_instruction>>, keypair, keypair, block_hash)
    IN  Append(Append(<<>>, tx), tip_tx)

\* a variant that takes an elapsed timeout for a landed bundle
WaitResult_TimeoutIsOk(outcome, id) ==
    CASE outcome = "confirmed" -> Ok(id)
      [] outcome = "timeout" -> Ok(id)
      [] outcome = "failed" -> Err(Error("bundle", "Bundle confirmation failed", 0))

\* jito_confirm: the result of the confirmation wait under tokio::time::timeout
WaitOutcomes == {"confirmed", "failed", "timeout"}
WaitResult(outcome, id) ==
    CASE outcome = "confirmed" -> Ok(id)
      [] outcome = "timeout" -> Err(Error("bundle", "Bundle confirmation timeout", 0))
      [] outcome = "failed" -> Err(Error("bundle", "Bundle confirmation failed", 0))

\* a variant that forgets the attempts' errors
ExhaustedError_Generic(le) == GenericError

\* the error new_signed_and_send returns after the retry loop
ExhaustedError(le) == IF le.some THEN le.val ELSE GenericError

(***************************************************************************)
(* pump.rs: the slippage calculator.                                        *)
(***************************************************************************)
\* a variant that divides before it multiplies
min_amount_with_slippage_DivFirst(input_amount, slippage_bps) ==
    IF slippage_bps >= TEN_THOUSAND
    THEN Err("Slippage cannot be 100% or greater")
    ELSE LET keep_percentage == TEN_THOUSAND - slippage_bps
             quotient == CheckedDiv(input_amount, TEN_THOUSAND)
         IN  OkOr(IF quotient.some THEN CheckedMul(quotient.val, keep_percentage)
                  ELSE None,
                  "Arithmetic overflow in slippage calculation")

\* a variant that rounds the quotient up
min_amount_with_slippage_RoundsUp(input_amount, slippage_bps) ==
    IF slippage_bps >= TEN_THOUSAND
    THEN Err("Slippage cannot be 100% or greater")
    ELSE LET keep_percentage == TEN_THOUSAND - slippage_bps
             product == CheckedMul(input_amount, keep_percentage)
         IN  IF ~product.some
             THEN Err("Arithmetic overflow in slippage calculation")
             ELSE IF RemFrom(product.val, TEN_THOUSAND, 1) = 0
                  THEN Ok(CheckedDiv(product.val, TEN_THOUSAND).val)
                  ELSE Ok(Norm(MulCarry(CheckedDiv(product.val, TEN_THOUSAND).val, 1, 1)))

\* min_amount_with_slippage
min_amount_with_slippage(input_amount, slippage_bps) ==
    IF slippage_bps >= TEN_THOUSAND
    THEN Err("Slippage cannot be 100% or greater")
    ELSE LET keep_percentage == TEN_THOUSAND - slippage_bps
         IN  OkOr(AndThenCheckedDiv(CheckedMul(input_amount, keep_percentage),
                                    TEN_THOUSAND),
                  "Arithmetic overflow in slippage calculation")

\* u64::checked_add of two small values
CheckedAdd(a, b) == IF Leq(FromInt(a + b), U64_MAX) THEN Some(a + b) ELSE None

\* a variant that divides before it multiplies
max_amount_with_slippage_DivFirst(input_amount, slippage_bps) ==
    IF slippage_bps > TEN_THOUSAND
    THEN Err("Slippage exceeds 100%, which may indicate an error")
    ELSE LET multiplier_percentage == CheckedAdd(TEN_THOUSAND, slippage_bps)
             quotient == CheckedDiv(input_amount, TEN_THOUSAND)
         IN  IF ~multiplier_percentage.some
             THEN Err("Overflow when adding slippage to base percentage")
             ELSE OkOr(IF quotient.some
                       THEN CheckedMul(quotient.val, multiplier_percentage.val)
                       ELSE None,
                       "Arithmetic overflow in slippage calculation")

\* max_amount_with_slippage
max_amount_with_slippage(input_amount, slippage_bps) ==
    IF slippage_bps > TEN_THOUSAND
    THEN Err("Slippage exceeds 100%, which may indicate an error")
    ELSE LET multiplier_percentage == CheckedAdd(TEN_THOUSAND, slippage_bps)
         IN  IF ~multiplier_percentage.some
             THEN Err("Overflow when adding slippage to base percentage")
             ELSE OkOr(AndThenCheckedDiv(CheckedMul(input_amount,
                                                    multiplier_percentage.val),
                                         TEN_THOUSAND),
                       "Arithmetic overflow in slippage calculation")

SwapDirections == {"Buy", "Sell"}

\* Pump::calculate_swap_amounts: (min_amount_out, max_amount_in); `?` returns
\* the first error
calculate_swap_amounts(amount_in, slippage_bps, swap_direction) ==
    IF swap_direction = "Buy"
    THEN LET min_tokens_out == min_amount_with_slippage(amount_in, slippage_bps)
             max_sol_in == max_amount_with_slippage(amount_in, slippage_bps)
         IN  IF min_tokens_out.tag = "Err" THEN min_tokens_out
             ELSE IF max_sol_in.tag = "Err" THEN max_sol_in
             ELSE Ok(<<min_tokens_out.val, max_sol_in.val>>)
    ELSE LET min_sol_out == min_amount_with_slippage(amount_in, slippage_bps)
         IN  IF min_sol_out.tag = "Err" THEN min_sol_out
             ELSE Ok(<<min_sol_out.val, amount_in>>)

\* a mint string: whether its characters are base58 and how many bytes they
\* decode to
Mints == [base58 : BOOLEAN, bytes : {31, 32, 33}]

\* Pubkey::from_str(mint).ok(): base58 text of exactly 32 bytes
PubkeyFromStr(mint) == IF mint.base58 /\ mint.bytes = 32 THEN Some(mint) ELSE None

\* a variant that leaves the slippage limit to the caller
validate_swap_params_NoSlippageLimit(mint, amount_in, slippage_bps) ==
    IF ~PubkeyFromStr(mint).some THEN Err("Invalid mint address format")
    ELSE IF amount_in = FromInt(0) THEN Err("Swap amount cannot be zero")
    ELSE Ok(<<>>)

\* Pump::validate_swap_params
validate_swap_params(mint, amount_in, slippage_bps) ==
    IF ~PubkeyFromStr(mint).some THEN Err("Invalid mint address format")
    ELSE IF amount_in = FromInt(0) THEN Err("Swap amount cannot be zero")
    ELSE IF slippage_bps > 5000 THEN Err("Slippage tolerance too high")
    ELSE Ok(<<>>)

\* validate_pump_swap_inputs
validate_pump_swap_inputs(amount_in, slippage, mint) ==
    IF amount_in = FromInt(0) THEN Err("Amount cannot be zero")
    ELSE IF slippage > MAX_SLIPPAGE_BPS THEN Err("Slippage too high")
    ELSE IF ~PubkeyFromStr(mint).some THEN Err("Invalid mint address")
    ELSE Ok(<<>>)

\* str::to_lowercase on the letters that occur
UpperChars == <<"B", "U", "Y", "S", "E", "L">>
LowerChars == <<"b", "u", "y", "s", "e", "l">>
LowerChar(c) ==
    IF \E k \in 1..Len(UpperChars) : UpperChars[k] = c
    THEN LowerChars[CHOOSE k \in 1..Len(UpperChars) : UpperChars[k] = c]
    ELSE c
ToLowercase(str) == [k \in 1..Len(str) |-> LowerChar(str[k])]

\* parse_swap_direction
parse_swap_direction(direction) ==
    LET lower == ToLowercase(direction)
    IN  IF lower \in {<<"b", "u", "y">>, <<"b">>} THEN Ok("Buy")
        ELSE IF lower \in {<<"s", "e", "l", "l">>, <<"s">>} THEN Ok("Sell")
        ELSE Err("Invalid swap direction")

\* pump_swap line 428: .map_err(|e| anyhow!("Pump swap failed: {}", e))
MapErrPumpSwapFailed(r) ==
    IF r.tag = "Err" THEN Err(<<"Pump swap failed: ", r.err>>) ELSE r

\* todo!(..): the task panics
Panicked(msg) == [tag |-> "panic", msg |-> msg]

(***************************************************************************)
(* Frames.                                                                 *)
(***************************************************************************)
inputs == <<env_unit_price, env_unit_limit, config_arg, config, jito_client,
            instruction_batches>>
batch_locals == <<i, all_results, batch_ret, started>>
jito_locals == <<bundle_txs, bundle_id>>
relay == <<jito_ret, tip_outcome, wait_outcome>>

Count(op) == calls' = [calls EXCEPT ![op] = @ + 1]

\* new_signed_and_send returns r to batch_send_transactions
Return(r) == ret' = r /\ pc' = "call_returned"

(***************************************************************************)
(* new_signed_and_send                                                     *)
(***************************************************************************)

\* lines 159-169: entry of the call is part of BatchLoop; add the budget
AddBudget ==
    /\ pc = "budget"
    /\ instructions' = AddComputeBudgetInstructions(instructions, config)
    /\ pc' = "blockhash"
    /\ UNCHANGED <<pump_vars, inputs, log_fee, sent_txs,
                   batch_locals, jito_locals, relay, recent_blockhash,
                   versioned_tx, results, last_error, attempt, ret, calls>>

\* a variant that signs with the default hash when the fetch fails
BlockhashFailed_SignsAnyway ==
    /\ recent_blockhash' = "none"
    /\ pc' = "sign"
    /\ UNCHANGED ret

\* line 174: .context("Failed to get recent blockhash")? returns the error
BlockhashFailed ==
    /\ Return(Err(Error("blockhash", "Failed to get recent blockhash", 0)))
    /\ UNCHANGED recent_blockhash

\* lines 172-174: client.get_latest_blockhash().context(..)?
GetLatestBlockhash ==
    /\ pc = "blockhash"
    /\ Count("get_latest_blockhash")
    /\ \/ \E h \in Blockhashes :
            /\ recent_blockhash' = h
            /\ pc' = "sign"
            /\ UNCHANGED ret
       \/ BlockhashFailed
    /\ UNCHANGED <<pump_vars, inputs, log_fee, sent_txs,
                   batch_locals, jito_locals, relay, instructions,
                   versioned_tx, results, last_error, attempt>>

\* lines 177-184
SignTransaction ==
    /\ pc = "sign"
    /\ Count("sign")
    /\ versioned_tx' = NewSignedWithPayer(instructions, Keypair, Keypair, recent_blockhash)
    /\ pc' = "try_jito"
    /\ UNCHANGED <<pump_vars, inputs, log_fee, sent_txs,
                   batch_locals, jito_locals, relay, instructions,
                   recent_blockhash, results, last_error, attempt, ret>>

\* line 187
TryJito ==
    /\ pc = "try_jito"
    /\ IF JitoEnabled(config, jito_client)
       THEN pc' = "jito_tip" /\ Count("jito_confirm")
       ELSE pc' = "broadcast" /\ UNCHANGED calls
    /\ UNCHANGED <<pump_vars, inputs, log_fee, sent_txs,
                   batch_locals, jito_locals, relay, instructions,
                   recent_blockhash, versioned_tx, results, last_error, attempt, ret>>

\* what fails in the first branch of try_join! (jito_confirm lines 102-105)
TipFailures == {"init_tip_accounts failed", "Failed to get tip account"}

\* a variant whose Err arm returns the bundle's error to the caller
JitoReturned_Propagates(r) ==
    /\ jito_ret' = r
    /\ IF r.tag = "Ok"
       THEN /\ results' = Append(results, r.val)
            /\ ret' = Ok(results')
            /\ pc' = "call_returned"
       ELSE /\ ret' = r
            /\ pc' = "call_returned"
            /\ UNCHANGED results

\* a variant whose Ok arm records the bundle id and goes on to the broadcast
JitoReturned_NoReturn(r) ==
    /\ jito_ret' = r
    /\ pc' = "broadcast"
    /\ UNCHANGED ret
    /\ IF r.tag = "Ok"
       THEN results' = Append(results, r.val)
       ELSE UNCHANGED results

\* lines 188-204: the match on what jito_confirm returned
JitoReturned(r) ==
    /\ jito_ret' = r
    /\ IF r.tag = "Ok"
       THEN /\ results' = Append(results, r.val)
            /\ Return(Ok(results'))
       ELSE /\ pc' = "broadcast"
            /\ UNCHANGED <<results, ret>>

\* a variant that sends the transaction alone when no tip account is found
TipFailed_SendsUntipped(why) ==
    /\ tip_outcome' = why
    /\ bundle_txs' = <<versioned_tx>>
    /\ pc' = "jito_send"
    /\ UNCHANGED <<jito_ret, results, ret>>

\* jito_confirm lines 101-107: try_join!(..)? hands the failure of
\* init_tip_accounts or of get_tip_account to the caller of jito_confirm
TipFailed(why) ==
    /\ tip_outcome' = why
    /\ JitoReturned(Err(Error("bundle", why, 0)))
    /\ UNCHANGED bundle_txs

\* jito_confirm lines 101-127: the joined tip resolution, then the bundle
JitoResolveTip ==
    /\ pc = "jito_tip"
    /\ Count("tip")
    /\ \/ \E tip_account \in TipAccounts :
            /\ tip_outcome' = "resolved"
            /\ bundle_txs' = BuildBundle(versioned_tx, Keypair, tip_account, TipValue,
                                         recent_blockhash)
            /\ pc' = "jito_send"
            /\ UNCHANGED <<jito_ret, results, ret>>
       \/ \E why \in TipFailures : TipFailed(why)
    /\ UNCHANGED <<pump_vars, inputs, log_fee, sent_txs,
                   batch_locals, bundle_id, wait_outcome, instructions,
                   recent_blockhash, versioned_tx, last_error, attempt>>

\* jito_confirm lines 130-133
JitoSendBundle ==
    /\ pc = "jito_send"
    /\ Count("send_bundle")
    /\ sent_txs' = sent_txs \cup {[via |-> "send_bundle", txs |-> bundle_txs]}
    /\ \/ /\ bundle_id' = BundleIdOf(bundle_txs)
          /\ pc' = "jito_wait"
          /\ UNCHANGED <<jito_ret, results, ret>>
       \/ /\ JitoReturned(Err(Error("bundle", "Failed to send bundle to Jito", 0)))
          /\ UNCHANGED bundle_id
    /\ UNCHANGED <<pump_vars, inputs, log_fee, batch_locals, bundle_txs, tip_outcome,
                   wait_outcome, instructions, recent_blockhash, versioned_tx,
                   last_error, attempt>>

\* jito_confirm lines 138-147
JitoWait ==
    /\ pc = "jito_wait"
    /\ Count("wait")
    /\ \E outcome \in WaitOutcomes :
            /\ wait_outcome' = outcome
            /\ JitoReturned(WaitResult(outcome, bundle_id))
    /\ UNCHANGED <<pump_vars, inputs, log_fee, sent_txs,
                   batch_locals, jito_locals, tip_outcome, instructions,
                   recent_blockhash, versioned_tx, last_error, attempt>>

\* line 208
EnterBroadcast ==
    /\ pc = "broadcast"
    /\ Count("broadcast")
    /\ last_error' = None
    /\ attempt' = 0
    /\ pc' = "loop"
    /\ UNCHANGED <<pump_vars, inputs, log_fee, sent_txs,
                   batch_locals, jito_locals, relay, instructions,
                   recent_blockhash, versioned_tx, results, ret>>

\* a variant whose loop makes one attempt even with no retry allowed
HasNextAttempt_AtLeastOne(n, max_retries) ==
    n < (IF max_retries = 0 THEN 1 ELSE max_retries)

\* line 209: the range 1..=max_retries yields another attempt after the n-th
HasNextAttempt(n, max_retries) == n < max_retries

\* line 209 (next iteration of for attempt in 1..=max_retries) and line 233
RetryLoop ==
    /\ pc = "loop"
    /\ IF HasNextAttempt(attempt, config.max_retries)
       THEN /\ attempt' = attempt + 1
            /\ Count("send_with_confirmation")
            /\ pc' = "send"
            /\ UNCHANGED ret
       ELSE /\ Return(Err(ExhaustedError(last_error)))
            /\ UNCHANGED <<attempt, calls>>
    /\ UNCHANGED <<pump_vars, inputs, log_fee, sent_txs,
                   batch_locals, jito_locals, relay, instructions,
                   recent_blockhash, versioned_tx, results, last_error>>

\* a variant that sleeps after the final attempt too
AttemptFailed_AlwaysSleeps(e) ==
    /\ last_error' = Some(e)
    /\ pc' = "retry_sleep"

\* a variant that sends again at once, without counting the attempt
AttemptFailed_SameAttempt(e) ==
    /\ last_error' = Some(e)
    /\ pc' = "send"

\* lines 220-229: the Err arm of the retry loop
AttemptFailed(e) ==
    /\ last_error' = Some(e)
    /\ pc' = IF attempt < config.max_retries THEN "retry_sleep" ELSE "loop"

\* a variant that signs the instructions anew, with another blockhash, for
\* every attempt
BroadcastTx_Resigned ==
    NewSignedWithPayer(instructions, Keypair, Keypair,
                       CHOOSE h \in Blockhashes : h # recent_blockhash)

\* line 210: the transaction every attempt sends, &versioned_tx
BroadcastTx == versioned_tx

\* send_transaction_with_confirmation lines 242-244
SendTransaction ==
    /\ pc = "send"
    /\ sent_txs' = sent_txs \cup {[via |-> "send_transaction", txs |-> <<BroadcastTx>>]}
    /\ \/ pc' = "confirm" /\ UNCHANGED last_error
       \/ AttemptFailed(Error("broadcast", "Failed to send transaction", attempt))
    /\ UNCHANGED <<pump_vars, inputs, log_fee, batch_locals, jito_locals, relay, instructions,
                   recent_blockhash, versioned_tx, results, attempt, ret, calls>>

\* a variant that records the signature and goes on with the loop
AttemptSucceeded_GoesOn(signature) ==
    /\ results' = Append(results, signature)
    /\ pc' = "loop"
    /\ UNCHANGED <<ret, last_error>>

\* lines 211-218: the Ok arm of the retry loop
AttemptSucceeded(signature) ==
    /\ results' = Append(results, signature)
    /\ Return(Ok(results'))
    /\ UNCHANGED last_error

\* send_transaction_with_confirmation lines 247-259
\* (the blockhash named at line 250 is the one the call fetched)
ConfirmTransaction ==
    /\ pc = "confirm"
    /\ \/ AttemptSucceeded(SignatureOf(versioned_tx))
       \/ \E why \in {"Failed to confirm transaction", "Transaction confirmation failed"} :
            /\ AttemptFailed(Error("broadcast", why, attempt))
            /\ UNCHANGED <<results, ret>>
    /\ UNCHANGED <<pump_vars, inputs, log_fee, sent_txs,
                   batch_locals, jito_locals, relay, instructions,
                   recent_blockhash, versioned_tx, attempt, calls>>

\* line 227
RetrySleep ==
    /\ pc = "retry_sleep"
    /\ Count("sleep")
    /\ pc' = "loop"
    /\ UNCHANGED <<pump_vars, inputs, log_fee, sent_txs,
                   batch_locals, jito_locals, relay, instructions,
                   recent_blockhash, versioned_tx, results, last_error, attempt, ret>>

(***************************************************************************)
(* batch_send_transactions                                                 *)
(***************************************************************************)

\* line 273 (next item: call new_signed_and_send on it) and line 297
BatchLoop ==
    /\ pc = "batch_loop"
    /\ IF i < Len(instruction_batches)
       THEN /\ i' = i + 1
            /\ started' = started \cup {i + 1}
            /\ instructions' = instruction_batches[i + 1]
            /\ results' = <<>>
            /\ recent_blockhash' = "none"
            /\ versioned_tx' = NoTx
            /\ last_error' = None
            /\ attempt' = 0
            /\ ret' = NotReturned
            /\ log_fee' = Some(calculate_priority_fee(config.unit_price, config.unit_limit))
            /\ sent_txs' = {}
            /\ bundle_txs' = <<>>
            /\ bundle_id' = NoId
            /\ jito_ret' = NotReturned
            /\ tip_outcome' = "none"
            /\ wait_outcome' = "none"
            /\ calls' = NoCalls
            /\ pc' = "budget"
            /\ UNCHANGED <<all_results, batch_ret>>
       ELSE /\ batch_ret' = Ok(all_results)
            /\ pc' = "batch_returned"
            /\ UNCHANGED <<i, all_results, started, instructions, results,
                           recent_blockhash, versioned_tx, last_error, attempt, ret,
                           log_fee, sent_txs, bundle_txs, bundle_id, jito_ret,
                           tip_outcome, wait_outcome, calls>>
    /\ UNCHANGED <<pump_vars, inputs>>

\* a variant that logs the failure and goes on with the next item
BatchItemFailed_Continues(e) ==
    /\ pc' = "batch_sleep"
    /\ UNCHANGED <<all_results, batch_ret>>

\* a variant that hands the collected results back with the error
BatchItemFailed_WithPartial(e) ==
    /\ batch_ret' = [tag |-> "Err", err |-> e, results |-> all_results]
    /\ pc' = "batch_returned"
    /\ UNCHANGED all_results

\* lines 287-290: the Err arm
BatchItemFailed(e) ==
    /\ batch_ret' = Err(e)
    /\ pc' = "batch_returned"
    /\ UNCHANGED all_results

\* a variant that goes on with the next item without the delay
BatchItemSucceeded_NoDelay(item_results) ==
    /\ all_results' = all_results \o item_results
    /\ pc' = "batch_loop"
    /\ UNCHANGED batch_ret

\* line 286 and line 294 next: the Ok arm, all_results.append(&mut results),
\* and on to the delay
BatchItemSucceeded(item_results) ==
    /\ all_results' = all_results \o item_results
    /\ pc' = "batch_sleep"
    /\ UNCHANGED batch_ret

\* lines 285-291: the match on what new_signed_and_send returned
BatchHandle ==
    /\ pc = "call_returned"
    /\ IF ret.tag = "Ok"
       THEN BatchItemSucceeded(ret.val)
       ELSE BatchItemFailed(ret.err)
    /\ UNCHANGED <<pump_vars, inputs, log_fee, sent_txs,
                   i, started, jito_locals, relay, instructions,
                   recent_blockhash, versioned_tx, results, last_error, attempt, ret,
                   calls>>

\* line 294
BatchSleep ==
    /\ pc = "batch_sleep"
    /\ pc' = "batch_loop"
    /\ UNCHANGED <<pump_vars, inputs, log_fee, sent_txs,
                   batch_locals, jito_locals, relay, instructions,
                   recent_blockhash, versioned_tx, results, last_error, attempt, ret,
                   calls>>

(***************************************************************************)
(* The orchestration specification.                                        *)
(***************************************************************************)
SlipOff ==
    /\ sl_pc = "off"
    /\ sl_amount = <<>>
    /\ sl_bps = 0
    /\ sl_direction = "Buy"
    /\ sl_min = NotReturned
    /\ sl_max = NotReturned
    /\ sl_amounts = NotReturned

\* batch_send_transactions before its first iteration
TxStart ==
    /\ config = UnwrapOrDefault(config_arg, env_unit_price, env_unit_limit)
    /\ i = 0
    /\ all_results = <<>>
    /\ batch_ret = NotReturned
    /\ started = {}
    /\ pc = "batch_loop"
    /\ instructions = <<>>
    /\ recent_blockhash = "none"
    /\ versioned_tx = NoTx
    /\ results = <<>>
    /\ last_error = None
    /\ attempt = 0
    /\ ret = NotReturned
    /\ log_fee = None
    /\ sent_txs = {}
    /\ bundle_txs = <<>>
    /\ bundle_id = NoId
    /\ jito_ret = NotReturned
    /\ tip_outcome = "none"
    /\ wait_outcome = "none"
    /\ calls = NoCalls

TxInit ==
    /\ env_unit_price = None
    /\ env_unit_limit = None
    /\ config_arg \in {Some(c) : c \in Configs}
    /\ jito_client \in BOOLEAN
    /\ instruction_batches \in
         {[k \in 1..n |-> ItemInstructions(k)] : n \in 0..MaxBatch}
    /\ TxStart

SwapBatchOff ==
    /\ sb_pc = "off"
    /\ sb_swaps = <<>>
    /\ sb_next = 0
    /\ sb_results = <<>>
    /\ sb_attempted = {}
    /\ sb_ret = NotReturned

SwapOff ==
    /\ sw_pc = "off"
    /\ sw_entry = "none"
    /\ sw_mint = [base58 |-> TRUE, bytes |-> 32]
    /\ sw_amount_in = <<>>
    /\ sw_slippage_bps = 0
    /\ sw_direction_arg = <<>>
    /\ sw_direction = "none"
    /\ sw_rpc_client = FALSE
    /\ sw_amounts = NotReturned
    /\ sw_calls = NoSwapCalls
    /\ sw_ret = NotReturned
    /\ SwapBatchOff

Init == TxInit /\ SlipOff /\ SwapOff

Next ==
    \/ BatchLoop
    \/ AddBudget
    \/ GetLatestBlockhash
    \/ SignTransaction
    \/ TryJito
    \/ JitoResolveTip
    \/ JitoSendBundle
    \/ JitoWait
    \/ EnterBroadcast
    \/ RetryLoop
    \/ SendTransaction
    \/ ConfirmTransaction
    \/ RetrySleep
    \/ BatchHandle
    \/ BatchSleep

Spec == Init /\ [][Next]_vars

\* the batches whose termination is checked: every retry budget, with and
\* without the bundle path, the default price
LiveInit ==
    /\ env_unit_price = None
    /\ env_unit_limit = None
    /\ config_arg \in {Some(c) : c \in {d \in Configs :
                                          d.unit_price = FromInt(DEFAULT_UNIT_PRICE)}}
    /\ jito_client \in BOOLEAN
    /\ instruction_batches \in
         {[k \in 1..n |-> ItemInstructions(k)] : n \in 0..MaxLiveBatch}
    /\ TxStart
    /\ SlipOff
    /\ SwapOff

\* every collaborator call returns and the program takes its next step
LiveSpec == LiveInit /\ [][Next]_vars /\ WF_vars(Next)

(***************************************************************************)
(* The configuration specification: one call of new_signed_and_send under  *)
(* every configuration, the default read from the environment included.    *)
(***************************************************************************)
\* values of an environment variable: unset, "", "abc", "0", "5", "+7", "-1",
\* "1000", "4294967296" (above u32::MAX), "18446744073709551616" (above u64::MAX)
EnvValues ==
    {None, Some(<<>>), Some(<<"a", "b", "c">>), Some(<<"0">>), Some(<<"5">>),
     Some(<<"+", "7">>), Some(<<"-", "1">>), Some(<<"1", "0", "0", "0">>),
     Some(<<"4", "2", "9", "4", "9", "6", "7", "2", "9", "6">>),
     Some(<<"1", "8", "4", "4", "6", "7", "4", "4", "0", "7",
            "3", "7", "0", "9", "5", "5", "1", "6", "1", "6">>)}

\* u32::MAX + 2 = 4294967297: times u32::MAX it is u64::MAX exactly
U32_MAX_PLUS_2 == Norm(MulCarry(U32_MAX, 1, 2))

\* configurations whose priority fee is 0, small, u64::MAX exactly, or overflows
FeeConfigs ==
    [unit_price : {FromInt(0), FromInt(1), FromInt(DEFAULT_UNIT_PRICE), U32_MAX_PLUS_2,
                   Norm(MulCarry(U32_MAX_PLUS_2, 1, 1)), U64_MAX},
     unit_limit : {FromInt(0), FromInt(1), FromInt(DEFAULT_UNIT_LIMIT), U32_MAX},
     max_retries : {1},
     use_jito : BOOLEAN]

CfgInit ==
    /\ \/ /\ config_arg = None
          /\ env_unit_price \in EnvValues
          /\ env_unit_limit \in EnvValues
       \/ /\ config_arg \in {Some(c) : c \in FeeConfigs}
          /\ env_unit_price = None
          /\ env_unit_limit = None
    /\ jito_client \in BOOLEAN
    /\ instruction_batches = <<ItemInstructions(2)>>
    /\ TxStart
    /\ SlipOff
    /\ SwapOff

CfgSpec == CfgInit /\ [][Next]_vars

(***************************************************************************)
(* The slippage specification: the calculator applied to chosen inputs.    *)
(***************************************************************************)
Succ(x) == Norm(MulCarry(x, 1, 1))

\* the largest amounts whose product with 10000 and with 20000 fits in u64
U64_MAX_DIV_10000 == CheckedDiv(U64_MAX, TEN_THOUSAND).val
U64_MAX_DIV_20000 == CheckedDiv(U64_MAX, 2 * TEN_THOUSAND).val

Amounts ==
    {FromInt(n) : n \in 0..MaxSmallAmount}
    \cup {FromInt(n) : n \in {9999, 10000, 10001, 1000000}}
    \cup {U64_MAX_DIV_20000, Succ(U64_MAX_DIV_20000),
          U64_MAX_DIV_10000, Succ(U64_MAX_DIV_10000), U64_MAX}

BpsValues == (0..MaxSmallBps) \cup {100, 5000, 9999, 10000, 10001, 65535}

TxIdle ==
    /\ env_unit_price = None
    /\ env_unit_limit = None
    /\ config_arg = None
    /\ config = UnwrapOrDefault(config_arg, env_unit_price, env_unit_limit)
    /\ log_fee = None
    /\ sent_txs = {}
    /\ jito_client = FALSE
    /\ instruction_batches = <<>>
    /\ i = 0
    /\ all_results = <<>>
    /\ batch_ret = NotReturned
    /\ started = {}
    /\ pc = "idle"
    /\ instructions = <<>>
    /\ recent_blockhash = "none"
    /\ versioned_tx = NoTx
    /\ results = <<>>
    /\ last_error = None
    /\ attempt = 0
    /\ ret = NotReturned
    /\ bundle_txs = <<>>
    /\ bundle_id = NoId
    /\ jito_ret = NotReturned
    /\ tip_outcome = "none"
    /\ wait_outcome = "none"
    /\ calls = NoCalls

SlipInit ==
    /\ TxIdle
    /\ SwapOff
    /\ sl_pc = "input"
    /\ sl_amount \in Amounts
    /\ sl_bps \in BpsValues
    /\ sl_direction \in SwapDirections
    /\ sl_min = NotReturned
    /\ sl_max = NotReturned
    /\ sl_amounts = NotReturned

SlipMin ==
    /\ sl_pc = "input"
    /\ sl_min' = min_amount_with_slippage(sl_amount, sl_bps)
    /\ sl_pc' = "min_done"
    /\ UNCHANGED <<tx_vars, sw_vars, sb_vars, sl_amount, sl_bps, sl_direction, sl_max, sl_amounts>>

SlipMax ==
    /\ sl_pc = "input"
    /\ sl_max' = max_amount_with_slippage(sl_amount, sl_bps)
    /\ sl_pc' = "max_done"
    /\ UNCHANGED <<tx_vars, sw_vars, sb_vars, sl_amount, sl_bps, sl_direction, sl_min, sl_amounts>>

SlipAmounts ==
    /\ sl_pc = "input"
    /\ sl_amounts' = calculate_swap_amounts(sl_amount, sl_bps, sl_direction)
    /\ sl_pc' = "amounts_done"
    /\ UNCHANGED <<tx_vars, sw_vars, sb_vars, sl_amount, sl_bps, sl_direction, sl_min, sl_max>>

SlipNext ==
    \/ SlipMin
    \/ SlipMax
    \/ SlipAmounts

SlipSpec == SlipInit /\ [][SlipNext]_vars

(***************************************************************************)
(* Claims about the orchestration.                                         *)
(***************************************************************************)
JitoPcs == {"jito_tip", "jito_send", "jito_wait"}
BroadcastPcs == {"loop", "send", "confirm", "retry_sleep"}
AfterCallPcs == {"call_returned", "batch_sleep", "batch_loop", "batch_returned"}

\* C1: when jito_confirm fails (tip resolution, send_bundle, negative
\* confirmation or timeout) the failure is not returned to the caller:
\* control goes on to the broadcast retry loop; jito_confirm is invoked at
\* most once per call and the broadcast stage is entered exactly once.
C1_BundleFailureFallsThrough ==
    /\ calls.jito_confirm <= 1
    /\ calls.broadcast <= 1
    /\ jito_ret.tag = "Err" =>
         /\ calls.jito_confirm = 1
         /\ pc \in {"broadcast"} \cup BroadcastPcs \cup AfterCallPcs
         /\ calls.broadcast = (IF pc = "broadcast" THEN 0 ELSE 1)
         /\ pc \in {"broadcast"} \cup BroadcastPcs => ret = NotReturned
         /\ ret.tag = "Err" => ret.err # jito_ret.err /\ ret.err.src # "bundle"

C1_Witness ==
    /\ jito_ret.tag = "Err"
    /\ pc = "call_returned"
    /\ calls.jito_confirm = 1
    /\ calls.broadcast = 1

\* C2: with max_retries = n >= 1 and every broadcast attempt failing there
\* are exactly n calls of send_transaction_with_confirmation and n-1
\* inter-attempt delays, and the error returned is that of the n-th attempt
\* (n = 3: three attempts, two delays, the third attempt's error).
C2_RetryExhaustion ==
    (ret.tag = "Err" /\ calls.broadcast = 1 /\ config.max_retries >= 1) =>
        /\ calls.send_with_confirmation = config.max_retries
        /\ calls.sleep = config.max_retries - 1
        /\ ret.err.src = "broadcast"
        /\ ret.err.attempt = config.max_retries
        /\ last_error = Some(ret.err)

C2_Witness ==
    /\ ret.tag = "Err"
    /\ config.max_retries = MAX_RETRIES
    /\ calls.send_with_confirmation = 3
    /\ calls.sleep = 2
    /\ ret.err.src = "broadcast"
    /\ ret.err.attempt = 3

\* C3 as stated: a confirmed bundle returns the bundle id and no broadcast
\* send is issued; a confirmed broadcast after a failed bundle returns that
\* signature; when both fail the error returned is the error of the last
\* broadcast attempt.
C3_Original ==
    /\ (ret.tag = "Ok" /\ jito_ret.tag = "Ok") =>
         /\ calls.send_with_confirmation = 0
         /\ calls.broadcast = 0
         /\ ret.val = <<bundle_id>>
    /\ (ret.tag = "Ok" /\ jito_ret.tag = "Err") =>
         ret.val = <<SignatureOf(versioned_tx)>>
    /\ (ret.tag = "Err" /\ jito_ret.tag = "Err") =>
         /\ ret.err.src = "broadcast"
         /\ ret.err.attempt = calls.send_with_confirmation
         /\ last_error = Some(ret.err)

\* C3 (amended): as C3, except that when both fail the error returned is the
\* error of the last broadcast attempt only if max_retries >= 1; with
\* max_retries = 0 no attempt is made and the generic error is returned.
\* It is never the bundle's error.
C3_OneSuccessfulPath ==
    /\ ret.tag = "Ok" => Len(ret.val) = 1
    /\ (ret.tag = "Ok" /\ jito_ret.tag = "Ok") =>
         /\ calls.send_with_confirmation = 0
         /\ calls.broadcast = 0
         /\ ret.val = <<bundle_id>>
    /\ (ret.tag = "Ok" /\ jito_ret.tag = "Err") =>
         ret.val = <<SignatureOf(versioned_tx)>>
    /\ (ret.tag = "Err" /\ jito_ret.tag = "Err") =>
         /\ ret.err.src # "bundle"
         /\ ret.err # jito_ret.err
         /\ IF config.max_retries >= 1
            THEN /\ ret.err.src = "broadcast"
                 /\ ret.err.attempt = calls.send_with_confirmation
                 /\ last_error = Some(ret.err)
            ELSE /\ ret.err = GenericError
                 /\ calls.send_with_confirmation = 0

C3_Witness ==
    /\ ret.tag = "Err"
    /\ jito_ret.tag = "Err"
    /\ config.max_retries >= 1
    /\ ret.err.src = "broadcast"

\* C4: batch_send_transactions stops at the first item whose call fails:
\* the failing call is followed by the return of the batch and by nothing
\* else, so no later item is started and no collaborator is called again.
C4_StopsAtFirstFailure ==
    /\ [](/\ started = 1..i
          /\ batch_ret.tag = "Err" => pc = "batch_returned" /\ ret.tag = "Err"
          /\ (ret.tag = "Err" /\ pc # "call_returned") => pc = "batch_returned")
    /\ [][/\ (pc = "call_returned" /\ ret.tag = "Err") =>
                /\ pc' = "batch_returned"
                /\ batch_ret'.tag = "Err"
                /\ UNCHANGED <<i, started, calls>>
          /\ pc # "batch_returned"]_vars

C4_Witness ==
    /\ batch_ret.tag = "Err"
    /\ Len(instruction_batches) = 3
    /\ i = 2
    /\ started = {1, 2}

\* the identifiers a value returned by batch_send_transactions hands over
ReturnedResults(r) ==
    IF "results" \in DOMAIN r THEN r.results
    ELSE IF r.tag = "Ok" THEN r.val ELSE <<>>

C6_BundlePathGuard ==
    /\ [](~(config.use_jito /\ jito_client) =>
            /\ pc \notin JitoPcs
            /\ calls.jito_confirm = 0
            /\ calls.tip = 0
            /\ calls.send_bundle = 0
            /\ calls.wait = 0
            /\ jito_ret = NotReturned
            /\ bundle_txs = <<>>)
    /\ [][(pc = "try_jito" /\ ~(config.use_jito /\ jito_client)) =>
             pc' = "broadcast"]_vars

C6_Witness ==
    /\ ~config.use_jito
    /\ jito_client
    /\ pc = "loop"
    /\ calls.sign = 1
    /\ calls.jito_confirm = 0

\* C7: every bundle passed to send_bundle is exactly the swap transaction
\* followed by the tip transfer, the tip transaction paid and signed by the
\* keypair of the swap transaction and carrying its blockhash.
C7_BundleShape ==
    (pc = "jito_send" \/ calls.send_bundle > 0) =>
        /\ Len(bundle_txs) = 2
        /\ bundle_txs[1] = versioned_tx
        /\ \E tip_account \in TipAccounts :
             bundle_txs[2].instructions = <<Transfer(Keypair, tip_account, TipValue)>>
        /\ bundle_txs[2].payer = versioned_tx.payer
        /\ bundle_txs[2].signer = versioned_tx.signer
        /\ bundle_txs[2].blockhash = versioned_tx.blockhash
        /\ versioned_tx.blockhash = recent_blockhash

C7_Witness ==
    /\ pc = "jito_wait"
    /\ calls.send_bundle = 1
    /\ Len(bundle_txs) = 2
    /\ bundle_txs[2].blockhash = "h2"

\* C8: once a bundle is sent jito_confirm returns the bundle id only if the
\* wait ended positively; a timeout and a negative confirmation are both
\* failures that leave the orchestrator in the same state at the entry of
\* the broadcast fallback.
C8_WaitOutcome ==
    /\ jito_ret.tag = "Ok" =>
         /\ wait_outcome = "confirmed"
         /\ calls.send_bundle = 1
         /\ jito_ret.val = bundle_id
    /\ wait_outcome \in {"timeout", "failed"} =>
         /\ jito_ret.tag = "Err"
         /\ jito_ret.err.src = "bundle"
         /\ pc \in {"broadcast"} \cup BroadcastPcs \cup AfterCallPcs
         /\ pc = "broadcast" =>
              /\ results = <<>>
              /\ ret = NotReturned
              /\ last_error = None
              /\ attempt = 0
              /\ calls.broadcast = 0
         /\ pc # "broadcast" => calls.broadcast = 1
         /\ ret.tag = "Ok" => ret.val = <<SignatureOf(versioned_tx)>>

C8_Witness ==
    /\ wait_outcome = "timeout"
    /\ pc = "loop"
    /\ calls.broadcast = 1

\* C9: after add_compute_budget_instructions the compute-unit-limit
\* instruction is at index 0, the compute-unit-price instruction is at index
\* 1 iff unit_price > 0, and the caller's instructions follow in order.
C9_BudgetInstructions ==
    (i >= 1 /\ pc # "budget") =>
        LET original == instruction_batches[i]
            n == Len(instructions)
        IN  /\ n >= 1
            /\ instructions[1] = SetComputeUnitLimit(config.unit_limit)
            /\ (n >= 2 /\ instructions[2].kind = "SetComputeUnitPrice")
                 <=> config.unit_price # FromInt(0)
            /\ config.unit_price # FromInt(0) =>
                 /\ instructions[2] = SetComputeUnitPrice(config.unit_price)
                 /\ SubSeq(instructions, 3, n) = original
            /\ config.unit_price = FromInt(0) => SubSeq(instructions, 2, n) = original

C9_Witness ==
    /\ pc = "blockhash"
    /\ instruction_batches[i] = <<>>
    /\ instructions = <<SetComputeUnitLimit(FromInt(DEFAULT_UNIT_LIMIT)),
                        SetComputeUnitPrice(FromInt(DEFAULT_UNIT_PRICE))>>

(***************************************************************************)
(* Pump::swap, called directly or through pump_swap.                       *)
(***************************************************************************)
swap_args == <<sw_entry, sw_mint, sw_amount_in, sw_slippage_bps, sw_direction_arg,
               sw_rpc_client>>

\* the entry function returns r: Pump::swap hands it to its caller, pump_swap
\* rewrites the error first
SwapReturn(r) ==
    /\ sw_ret' = IF sw_entry = "pump_swap" THEN MapErrPumpSwapFailed(r) ELSE r
    /\ sw_pc' = "returned"

\* pump_swap lines 403-413: parse the direction, validate, Pump::new
PumpSwapEntry ==
    /\ sw_pc = "pump_swap"
    /\ LET direction == parse_swap_direction(sw_direction_arg)
           valid == validate_pump_swap_inputs(sw_amount_in, sw_slippage_bps, sw_mint)
       IN  IF direction.tag = "Err"
           THEN sw_ret' = direction /\ sw_pc' = "returned" /\ UNCHANGED sw_direction
           ELSE IF valid.tag = "Err"
           THEN sw_ret' = valid /\ sw_pc' = "returned" /\ UNCHANGED sw_direction
           ELSE sw_direction' = direction.val /\ sw_pc' = "validate" /\ UNCHANGED sw_ret
    /\ UNCHANGED <<tx_vars, sl_vars, sb_vars, swap_args, sw_amounts, sw_calls>>

\* Pump::swap line 88
SwapValidate ==
    /\ sw_pc = "validate"
    /\ LET valid == validate_swap_params(sw_mint, sw_amount_in, sw_slippage_bps)
       IN  IF valid.tag = "Err"
           THEN SwapReturn(valid)
           ELSE sw_pc' = "get_client" /\ UNCHANGED sw_ret
    /\ UNCHANGED <<tx_vars, sl_vars, sb_vars, swap_args, sw_direction, sw_amounts, sw_calls>>

\* Pump::swap line 91, get_rpc_client
SwapGetRpcClient ==
    /\ sw_pc = "get_client"
    /\ IF sw_rpc_client
       THEN sw_pc' = "fetch_curve" /\ UNCHANGED sw_ret
       ELSE SwapReturn(Err("Blocking RPC client not available"))
    /\ UNCHANGED <<tx_vars, sl_vars, sb_vars, swap_args, sw_direction, sw_amounts, sw_calls>>

\* build_swap_instructions lines 152-161: the account fetch answers or fails
SwapFetchCurve ==
    /\ sw_pc = "fetch_curve"
    /\ sw_calls' = [sw_calls EXCEPT !.get_bonding_curve_account = @ + 1]
    /\ \/ sw_pc' = "amounts" /\ UNCHANGED sw_ret
       \/ SwapReturn(Err("get_bonding_curve_account failed"))
    /\ UNCHANGED <<tx_vars, sl_vars, sb_vars, swap_args, sw_direction, sw_amounts>>

\* build_swap_instructions lines 164-169
SwapCalculate ==
    /\ sw_pc = "amounts"
    /\ sw_amounts' = calculate_swap_amounts(sw_amount_in, sw_slippage_bps, sw_direction)
    /\ IF sw_amounts'.tag = "Err"
       THEN SwapReturn(sw_amounts')
       ELSE sw_pc' = "build" /\ UNCHANGED sw_ret
    /\ UNCHANGED <<tx_vars, sl_vars, sb_vars, swap_args, sw_direction, sw_calls>>

\* build_swap_instructions lines 172-191: build_buy_instructions and
\* build_sell_instructions are todo!(..)
SwapBuild ==
    /\ sw_pc = "build"
    /\ sw_calls' = [sw_calls EXCEPT !.build_instructions = @ + 1]
    /\ sw_ret' = Panicked(IF sw_direction = "Buy"
                          THEN "Implement buy instruction building"
                          ELSE "Implement sell instruction building")
    /\ sw_pc' = "panicked"
    /\ UNCHANGED <<tx_vars, sl_vars, sb_vars, swap_args, sw_direction, sw_amounts>>

SwapAmounts == {FromInt(0), FromInt(1), FromInt(1000000), U64_MAX}
SwapBpsValues == {0, 100, MAX_SLIPPAGE_BPS, MAX_SLIPPAGE_BPS + 1, TEN_THOUSAND}
DirectionStrings ==
    {<<"b", "u", "y">>, <<"B", "U", "Y">>, <<"b">>, <<"S", "e", "l", "l">>, <<"s">>,
     <<"h", "o", "l", "d">>, <<>>}

SwapInit ==
    /\ TxIdle
    /\ SlipOff
    /\ SwapBatchOff
    /\ sw_mint \in Mints
    /\ sw_amount_in \in SwapAmounts
    /\ sw_slippage_bps \in SwapBpsValues
    /\ \/ /\ sw_entry = "pump_swap"
          /\ sw_direction_arg \in DirectionStrings
          /\ sw_direction = "none"
          /\ sw_rpc_client = TRUE
          /\ sw_pc = "pump_swap"
       \/ /\ sw_entry = "Pump::swap"
          /\ sw_direction_arg = <<>>
          /\ sw_direction \in SwapDirections
          /\ sw_rpc_client \in BOOLEAN
          /\ sw_pc = "validate"
    /\ sw_amounts = NotReturned
    /\ sw_calls = NoSwapCalls
    /\ sw_ret = NotReturned

SwapNext ==
    \/ PumpSwapEntry
    \/ SwapValidate
    \/ SwapGetRpcClient
    \/ SwapFetchCurve
    \/ SwapCalculate
    \/ SwapBuild

SwapSpec == SwapInit /\ [][SwapNext]_vars

(***************************************************************************)
(* pump_swap_batch: one Pump, then Pump::swap on every request in turn.    *)
(***************************************************************************)
\* SwapRequest {mint, amount, direction, slippage}
SwapRequests ==
    [mint : {[base58 |-> TRUE, bytes |-> 32], [base58 |-> FALSE, bytes |-> 32]},
     amount : {FromInt(1000000), U64_MAX},
     direction : {<<"b", "u", "y">>, <<"S">>, <<"h", "o", "l", "d">>},
     slippage : {None, Some(MAX_SLIPPAGE_BPS + 1)}]

\* lines 567-568 (next request: parse its direction with ?), lines 570-577
\* (call pump.swap on it) and line 582
BatchSwapLoop ==
    /\ sb_pc = "loop"
    /\ IF sb_next < Len(sb_swaps)
       THEN LET swap_request == sb_swaps[sb_next + 1]
                swap_direction == parse_swap_direction(swap_request.direction)
            IN  /\ sb_next' = sb_next + 1
                /\ IF swap_direction.tag = "Err"
                   THEN /\ sb_ret' = swap_direction
                        /\ sb_pc' = "returned"
                        /\ UNCHANGED <<sb_attempted, sw_pc, sw_mint, sw_amount_in,
                                       sw_slippage_bps, sw_direction, sw_amounts,
                                       sw_calls, sw_ret>>
                   ELSE /\ sb_attempted' = sb_attempted \cup {sb_next + 1}
                        /\ sw_mint' = swap_request.mint
                        /\ sw_amount_in' = swap_request.amount
                        /\ sw_direction' = swap_direction.val
                        /\ sw_slippage_bps' = UnwrapOr(swap_request.slippage,
                                                       DEFAULT_SLIPPAGE_BPS)
                        /\ sw_amounts' = NotReturned
                        /\ sw_calls' = NoSwapCalls
                        /\ sw_ret' = NotReturned
                        /\ sw_pc' = "validate"
                        /\ sb_pc' = "swap"
                        /\ UNCHANGED sb_ret
       ELSE /\ sb_ret' = Ok(sb_results)
            /\ sb_pc' = "returned"
            /\ UNCHANGED <<sb_next, sb_attempted, sw_pc, sw_mint, sw_amount_in,
                           sw_slippage_bps, sw_direction, sw_amounts, sw_calls, sw_ret>>
    /\ UNCHANGED <<tx_vars, sl_vars, sb_swaps, sb_results, sw_entry, sw_direction_arg,
                   sw_rpc_client>>

\* line 579: results.push(result)
BatchSwapPush ==
    /\ sb_pc = "swap"
    /\ sw_pc = "returned"
    /\ sb_results' = Append(sb_results, sw_ret)
    /\ sb_pc' = "loop"
    /\ UNCHANGED <<tx_vars, sl_vars, sw_vars, sb_swaps, sb_next, sb_attempted, sb_ret>>

\* lines 559-565: Pump::new(..) with the blocking client, results empty
BatchSwapInit ==
    /\ TxIdle
    /\ SlipOff
    /\ sw_pc = "off"
    /\ sw_entry = "pump_swap_batch"
    /\ sw_mint = [base58 |-> TRUE, bytes |-> 32]
    /\ sw_amount_in = <<>>
    /\ sw_slippage_bps = 0
    /\ sw_direction_arg = <<>>
    /\ sw_direction = "none"
    /\ sw_rpc_client = TRUE
    /\ sw_amounts = NotReturned
    /\ sw_calls = NoSwapCalls
    /\ sw_ret = NotReturned
    /\ sb_pc = "loop"
    /\ sb_swaps \in UNION {[1..n -> SwapRequests] : n \in 0..MaxSwaps}
    /\ sb_next = 0
    /\ sb_results = <<>>
    /\ sb_attempted = {}
    /\ sb_ret = NotReturned

BatchSwapNext ==
    \/ BatchSwapLoop
    \/ SwapValidate
    \/ SwapGetRpcClient
    \/ SwapFetchCurve
    \/ SwapCalculate
    \/ SwapBuild
    \/ BatchSwapPush

BatchSwapSpec == BatchSwapInit /\ [][BatchSwapNext]_vars

(***************************************************************************)
(* Claims about the configuration and the priority fee.                    *)
(***************************************************************************)
\* the instruction list add_compute_budget_instructions leaves, written out
\* from the configuration and the caller's instructions
BudgetedInstructions ==
    <<SetComputeUnitLimit(config.unit_limit)>>
    \o (IF config.unit_price = <<>> THEN <<>> ELSE <<SetComputeUnitPrice(config.unit_price)>>)
    \o instruction_batches[i]

\* C15: calculate_priority_fee(unit_price, unit_limit) is the product when it
\* fits in 64 bits ((1000, 300000) gives 300_000_000, (0, X) gives 0) and
\* u64::MAX when it does not; whatever it is, the instructions built are the
\* budget instructions of the configuration followed by the caller's, and
\* the bundle path is taken iff use_jito is set and a client is supplied.
C15_PriorityFee ==
    log_fee.some =>
        LET product == Mul(config.unit_limit, config.unit_price)
            fee == log_fee.val
        IN  /\ fee = IF Leq(product, U64_MAX) THEN product ELSE U64_MAX
            /\ (config.unit_price = FromInt(1000) /\ config.unit_limit = FromInt(300000))
                 => fee = FromInt(300000000)
            /\ config.unit_price = <<>> => fee = <<>>
            /\ Leq(fee, U64_MAX)
            /\ instructions = IF pc = "budget" THEN instruction_batches[i]
                              ELSE BudgetedInstructions
            /\ (calls.jito_confirm = 1) <=>
                 (config.use_jito /\ jito_client /\ calls.sign = 1 /\ pc # "try_jito")
            /\ calls.broadcast = 1 =>
                 (~(config.use_jito /\ jito_client) \/ jito_ret.tag = "Err")

\* an overflowing product: the fee logged is u64::MAX and the call goes its
\* way to a confirmed broadcast
C15_Witness ==
    /\ log_fee = Some(U64_MAX)
    /\ config.unit_price = Norm(MulCarry(U32_MAX_PLUS_2, 1, 1))
    /\ config.unit_limit = U32_MAX
    /\ ~config.use_jito
    /\ pc = "call_returned"
    /\ ret = Ok(<<SignatureOf(versioned_tx)>>)

\* the variable is unset or does not parse as an unsigned integer of the width
Unparsable(env, max) == ~env.some \/ ~FromStr(env.val, max).some

\* C16 as stated: whatever UNIT_PRICE and UNIT_LIMIT hold (unset, unparsable,
\* any parsable number), TxConfig::default() has unit_price > 0,
\* unit_limit > 0, max_retries > 0 and use_jito = true, with 1000 / 300000
\* for a variable that is unset or unparsable.
C16_Original ==
    config_arg = None =>
        /\ config.unit_price # FromInt(0)
        /\ config.unit_limit # FromInt(0)
        /\ config.max_retries > 0
        /\ config.use_jito = TRUE
        /\ Unparsable(env_unit_price, U64_MAX) =>
             config.unit_price = FromInt(DEFAULT_UNIT_PRICE)
        /\ Unparsable(env_unit_limit, U32_MAX) =>
             config.unit_limit = FromInt(DEFAULT_UNIT_LIMIT)

(***************************************************************************)
(* Claims about one call of new_signed_and_send.                           *)
(***************************************************************************)
FailureReasons ==
    {"Failed to get recent blockhash", "Failed to send transaction",
     "Failed to confirm transaction", "Transaction confirmation failed",
     "All transaction attempts failed"}

\* C17: a call that has returned gave either Ok with exactly one identifier
\* (the bundle id or the signature) or Err with a failure reason; never Ok
\* with an empty list or with more than one identifier.
C17_OneIdentifierOrError ==
    /\ pc = "call_returned" => ret.tag \in {"Ok", "Err"}
    /\ ret.tag \in {"Ok", "Err", "none"}
    /\ ret.tag = "Ok" =>
         /\ Len(ret.val) = 1
         /\ ret.val = results
         /\ ret.val[1] \in {bundle_id, SignatureOf(versioned_tx)}
         /\ ret.val[1].kind \in {"bundle_id", "signature"}
    /\ ret.tag = "Err" =>
         /\ ret.err.kind \in FailureReasons
         /\ results = <<>>
    /\ Len(results) <= 1

C17_Witness ==
    /\ pc = "call_returned"
    /\ jito_ret.tag = "Err"
    /\ ret = Ok(<<SignatureOf(versioned_tx)>>)
    /\ calls.send_with_confirmation = 2

\* the terminal states of a call: it returned Ok with the identifier
\* (CONFIRMED) or it returned Err (EXHAUSTED: the error of the retry loop or,
\* before anything was signed, that of the blockhash fetch)
Confirmed == pc = "call_returned" /\ ret.tag = "Ok" /\ Len(ret.val) = 1
Exhausted == pc = "call_returned" /\ ret.tag = "Err"

\* C18: when every collaborator call returns, every call of
\* new_signed_and_send terminates, in CONFIRMED or in EXHAUSTED, whatever
\* max_retries is (a signed transaction ends in CONFIRMED or with the error
\* the retry loop hands back); every batch_send_transactions terminates; the
\* bundle confirmation wait ends, by its timeout at the latest.
C18_Termination ==
    /\ (pc = "budget") ~> (Confirmed \/ Exhausted)
    /\ (pc = "try_jito") ~> (Confirmed \/ (Exhausted /\ calls.broadcast = 1))
    /\ (pc = "jito_wait") ~> (pc # "jito_wait" /\ wait_outcome \in WaitOutcomes)
    /\ <>(pc = "batch_returned")

C18_Witness ==
    /\ pc = "batch_returned"
    /\ i = MaxLiveBatch
    /\ batch_ret.tag = "Err"
    /\ wait_outcome = "timeout"
    /\ calls.send_with_confirmation = MaxRetriesBound
    /\ calls.broadcast = 1

\* C19: within one call the blockhash is fetched once and the transaction
\* signed once; the bundle and every broadcast attempt submit that signed
\* transaction, and everything submitted carries that blockhash; neither is
\* refreshed or redone while the call lasts.
C19_SignedOnce ==
    /\ [](/\ calls.get_latest_blockhash <= 1
          /\ calls.sign <= 1
          /\ calls.sign = 1 =>
               /\ calls.get_latest_blockhash = 1
               /\ recent_blockhash \in Blockhashes
               /\ versioned_tx = NewSignedWithPayer(instructions, Keypair, Keypair,
                                                    recent_blockhash)
          /\ \A s \in sent_txs :
               /\ calls.sign = 1
               /\ s.txs[1] = versioned_tx
               /\ \A k \in DOMAIN s.txs : s.txs[k].blockhash = recent_blockhash
          /\ calls.send_bundle = 1 =>
               [via |-> "send_bundle", txs |-> bundle_txs] \in sent_txs
          /\ pc = "confirm" =>
               [via |-> "send_transaction", txs |-> <<versioned_tx>>] \in sent_txs
          /\ Cardinality(sent_txs) <= 2)
    /\ [][(calls.sign = 1 /\ calls'.sign = 1) =>
             /\ versioned_tx' = versioned_tx
             /\ recent_blockhash' = recent_blockhash
             /\ instructions' = instructions]_vars

\* a bundle was sent and two broadcasts followed
C19_Witness ==
    /\ Cardinality(sent_txs) = 2
    /\ calls.send_bundle = 1
    /\ calls.send_with_confirmation = 2
    /\ pc = "call_returned"

\* C20: the retry loop returns the signature of the first attempt whose send
\* succeeds and whose confirmation is positive, and nothing of the call
\* follows (no send, no poll, no delay); an attempt whose send succeeded but
\* whose confirmation is negative or fails is a failed attempt like any
\* other: every attempt is counted once, and each failed one but the last
\* is followed by one delay.
C20_FirstConfirmedAttempt ==
    /\ [](/\ results # <<>> => (pc \in AfterCallPcs /\ ret = Ok(results))
          /\ (ret.tag = "Ok" /\ calls.broadcast = 1) =>
               /\ ret.val = <<SignatureOf(versioned_tx)>>
               /\ attempt >= 1
               /\ calls.send_with_confirmation = attempt
               /\ calls.sleep = attempt - 1
               /\ attempt > 1 => (last_error.some /\ last_error.val.attempt = attempt - 1)
          /\ pc \in BroadcastPcs =>
               /\ ret = NotReturned
               /\ calls.send_with_confirmation = attempt
               /\ attempt <= config.max_retries
          /\ pc \in {"send", "confirm"} =>
               /\ calls.sleep = attempt - 1
               /\ attempt = 1 => last_error = None
               /\ attempt > 1 => (last_error.some /\ last_error.val.attempt = attempt - 1)
          /\ pc = "retry_sleep" =>
               /\ last_error.some
               /\ last_error.val.attempt = attempt
               /\ calls.sleep = attempt - 1)
    /\ [][pc = "confirm" =>
             \/ /\ pc' = "call_returned"
                /\ ret' = Ok(<<SignatureOf(versioned_tx)>>)
             \/ /\ pc' \in {"retry_sleep", "loop"}
                /\ ret' = NotReturned
                /\ last_error'.val.kind \in {"Failed to confirm transaction",
                                             "Transaction confirmation failed"}
                /\ last_error'.val.attempt = attempt
                /\ attempt' = attempt
                /\ calls' = calls]_vars
    /\ [][(ret.tag = "Ok" /\ pc # "batch_loop") => (calls' = calls /\ ret' = ret)]_vars

C20_Witness ==
    /\ pc = "call_returned"
    /\ calls.broadcast = 1
    /\ attempt = 2
    /\ ret = Ok(<<SignatureOf(versioned_tx)>>)
    /\ last_error.some
    /\ last_error.val.kind = "Transaction confirmation failed"
    /\ last_error.val.attempt = 1
    /\ calls.sleep = 1

(***************************************************************************)
(* Claims about the batch and the failure paths of a call.                 *)
(***************************************************************************)
\* the caller's instructions in the transaction an identifier stands for: the
\* signed transaction of a signature, the first transaction of a bundle
SubmittedItem(id) ==
    LET tx == IF id.kind = "signature" THEN id.of ELSE id.of[1]
    IN  SelectSeq(tx.instructions, LAMBDA ix : ix.program # "ComputeBudget")

\* C21: batch_send_transactions takes the items one after the other in input
\* order: the call for the next item begins only after the call for the
\* current one returned Ok and the delay after it has elapsed; whatever was
\* submitted since the call began belongs to the current item, all earlier
\* items having returned; on full success the list returned holds one
\* identifier per item, the k-th being that of the k-th item.
C21_StrictlySequential ==
    /\ [](/\ started = 1..i
          /\ i <= Len(instruction_batches)
          /\ Len(all_results) =
               (IF \/ pc \in {"batch_sleep", "batch_loop"}
                   \/ (pc = "batch_returned" /\ batch_ret.tag = "Ok")
                THEN i ELSE i - 1)
          /\ \A k \in 1..Len(all_results) :
               SubmittedItem(all_results[k]) = instruction_batches[k]
          /\ \A s \in sent_txs :
               /\ s.txs[1].instructions = BudgetedInstructions
               /\ s.txs[1] = versioned_tx
          /\ batch_ret.tag = "Ok" =>
               /\ batch_ret.val = all_results
               /\ Len(batch_ret.val) = Len(instruction_batches)
               /\ i = Len(instruction_batches))
    /\ [][/\ i' # i =>
                /\ i' = i + 1
                /\ pc = "batch_loop"
                /\ pc' = "budget"
                /\ calls' = NoCalls
                /\ sent_txs' = {}
                /\ i >= 1 => ret.tag = "Ok"
          /\ (pc' = "batch_loop" /\ pc # "batch_loop") => pc = "batch_sleep"
          /\ (pc' = "batch_sleep" /\ pc # "batch_sleep") =>
                /\ pc = "call_returned"
                /\ ret.tag = "Ok"
                /\ Len(ret.val) = 1
                /\ all_results' = Append(all_results, ret.val[1])]_vars

\* three items, the second confirmed by the relay, and the batch returned
C21_Witness ==
    /\ pc = "batch_returned"
    /\ Len(instruction_batches) = 3
    /\ batch_ret.tag = "Ok"
    /\ Len(batch_ret.val) = 3
    /\ batch_ret.val[2].kind = "bundle_id"
    /\ batch_ret.val[3].kind = "signature"

\* C22: a call that signed its transaction with max_retries = 0 and whose
\* bundle path was skipped or failed makes no broadcast send, sleeps never
\* and returns the generic error "All transaction attempts failed"; no other
\* call returns that error: with max_retries >= 1 a call whose retry loop
\* ends without success returns the error of an attempt it made.
C22_GenericErrorOnlyWithoutAttempts ==
    LET bundle_skipped == ~(config.use_jito /\ jito_client)
        bundle_failed == jito_ret.tag = "Err"
        generic == [tag |-> "Err",
                    err |-> [src |-> "generic",
                             kind |-> "All transaction attempts failed",
                             attempt |-> 0]]
    IN  /\ (/\ ret.tag # "none"
             /\ calls.sign = 1
             /\ config.max_retries = 0
             /\ (bundle_skipped \/ bundle_failed)) =>
               /\ ret = generic
               /\ calls.send_with_confirmation = 0
               /\ calls.sleep = 0
               /\ \A s \in sent_txs : s.via # "send_transaction"
               /\ calls.broadcast = 1
        /\ (config.max_retries = 0 /\ pc \in BroadcastPcs) => pc = "loop"
        /\ (ret.tag = "Err" /\ ret.err.kind = "All transaction attempts failed") =>
               /\ ret = generic
               /\ config.max_retries = 0
               /\ calls.sign = 1
               /\ (bundle_skipped \/ bundle_failed)
               /\ calls.send_with_confirmation = 0
               /\ last_error = None
        /\ (ret.tag = "Err" /\ calls.broadcast = 1 /\ config.max_retries >= 1) =>
               /\ last_error.some
               /\ ret.err = last_error.val
               /\ ret.err.src = "broadcast"
               /\ ret.err.attempt \in 1..calls.send_with_confirmation

\* no retry allowed, the relay refused the bundle, the generic error returned
C22_Witness ==
    /\ pc = "call_returned"
    /\ config.max_retries = 0
    /\ jito_ret.tag = "Err"
    /\ calls.send_bundle = 1
    /\ calls.send_with_confirmation = 0
    /\ ret.tag = "Err"
    /\ ret.err.kind = "All transaction attempts failed"

\* the joined tip resolution of the call failed
TipResolutionFailed ==
    tip_outcome \in {"init_tip_accounts failed", "Failed to get tip account"}

\* C23: when the initialization of the tip accounts or the lookup of a tip
\* account fails, jito_confirm fails there: no bundle is built or sent and no
\* confirmation wait is started; the call then goes on to the broadcast loop
\* with the very state any other failure of the bundle leaves (nothing
\* returned, no result, the signed transaction untouched).
C23_TipFailureFallsBack ==
    /\ [](TipResolutionFailed =>
            /\ jito_ret.tag = "Err"
            /\ jito_ret.err.kind = tip_outcome
            /\ calls.tip = 1
            /\ calls.send_bundle = 0
            /\ calls.wait = 0
            /\ bundle_txs = <<>>
            /\ bundle_id = [kind |-> "none"]
            /\ wait_outcome = "none"
            /\ \A s \in sent_txs : s.via = "send_transaction"
            /\ pc \in {"broadcast"} \cup BroadcastPcs \cup AfterCallPcs
            /\ calls.broadcast = (IF pc = "broadcast" THEN 0 ELSE 1)
            /\ ret.tag = "Err" => ret.err.src # "bundle")
    /\ [][(pc = "jito_tip" /\ pc' # "jito_tip") =>
            /\ tip_outcome = "none"
            /\ sent_txs' = {}
            /\ IF pc' = "jito_send"
               THEN tip_outcome' = "resolved" /\ Len(bundle_txs') = 2
               ELSE TipResolutionFailed' /\ pc' = "broadcast"]_vars
    /\ [][(jito_ret.tag # "Err" /\ jito_ret'.tag = "Err") =>
            /\ pc \in JitoPcs
            /\ pc' = "broadcast"
            /\ ret' = [tag |-> "none"]
            /\ results' = <<>>
            /\ versioned_tx' = versioned_tx
            /\ recent_blockhash' = recent_blockhash
            /\ instructions' = instructions
            /\ sent_txs' \in {sent_txs,
                              sent_txs \cup {[via |-> "send_bundle",
                                              txs |-> bundle_txs]}}]_vars

\* no tip account was found and the second broadcast attempt was confirmed
C23_Witness ==
    /\ tip_outcome = "Failed to get tip account"
    /\ jito_ret.tag = "Err"
    /\ calls.send_bundle = 0
    /\ pc = "call_returned"
    /\ ret = Ok(<<SignatureOf(versioned_tx)>>)
    /\ calls.send_with_confirmation = 2

\* C24: when the fetch of the latest blockhash fails the call returns that
\* error at once: nothing is signed, no bundle is built or sent, no
\* broadcast is sent, no attempt is counted and no delay is taken; signing
\* happens only with a blockhash the fetch returned.
C24_BlockhashFailureReturns ==
    /\ []((ret.tag = "Err" /\ ret.err.kind = "Failed to get recent blockhash") =>
            /\ pc \in {"call_returned", "batch_returned"}
            /\ calls = [get_latest_blockhash |-> 1, sign |-> 0, jito_confirm |-> 0,
                        tip |-> 0, send_bundle |-> 0, wait |-> 0, broadcast |-> 0,
                        send_with_confirmation |-> 0, sleep |-> 0]
            /\ recent_blockhash = "none"
            /\ versioned_tx.signer = "none"
            /\ sent_txs = {}
            /\ bundle_txs = <<>>
            /\ jito_ret = [tag |-> "none"]
            /\ tip_outcome = "none"
            /\ wait_outcome = "none"
            /\ attempt = 0
            /\ last_error = [some |-> FALSE]
            /\ results = <<>>)
    /\ [](calls.sign = 1 => recent_blockhash \in Blockhashes)
    /\ [][(pc = "blockhash" /\ pc' # "blockhash") =>
            /\ calls'.get_latest_blockhash = 1
            /\ IF pc' = "sign"
               THEN recent_blockhash' \in Blockhashes /\ ret' = [tag |-> "none"]
               ELSE /\ pc' = "call_returned"
                    /\ ret'.tag = "Err"
                    /\ ret'.err.kind = "Failed to get recent blockhash"]_vars

\* the second item's fetch failed and the batch returned that error
C24_Witness ==
    /\ pc = "batch_returned"
    /\ i = 2
    /\ batch_ret.tag = "Err"
    /\ batch_ret.err.kind = "Failed to get recent blockhash"
    /\ calls.get_latest_blockhash = 1
    /\ calls.sign = 0
    /\ config.use_jito
    /\ jito_client

\* C25 as stated: pump_swap_batch calls pump.swap on every request, in input
\* order and whatever became of the earlier ones, and returns Ok with one
\* result per request in that order; no request keeps a later one from being
\* attempted or the earlier results from being returned.
C25_Original ==
    /\ sb_attempted \in {1..n : n \in 0..Len(sb_swaps)}
    /\ Len(sb_results) <= Len(sb_swaps)
    /\ (sb_pc = "returned" \/ sw_pc = "panicked") =>
         /\ sb_pc = "returned"
         /\ sb_attempted = 1..Len(sb_swaps)
         /\ sb_ret.tag = "Ok"
         /\ Len(sb_ret.val) = Len(sb_swaps)
         /\ sb_ret.val = sb_results

(***************************************************************************)
(* Claims about the slippage calculator.                                   *)
(***************************************************************************)
\* the product input_amount * (10000 - slippage_bps) fits in 64 bits
MinProductFits == Leq(Norm(MulCarry(sl_amount, TEN_THOUSAND - sl_bps, 0)), U64_MAX)

\* C10 as stated: for every u64 amount and every bps in [0, 9999]
\* min_amount_with_slippage returns a value <= amount, equal to amount when
\* bps = 0.
C10_Original ==
    (sl_pc = "min_done" /\ sl_bps \in 0..9999) =>
        /\ sl_min.tag = "Ok"
        /\ Leq(sl_min.val, sl_amount)
        /\ sl_bps = 0 => sl_min.val = sl_amount

\* C10 (amended): for every u64 amount and every bps in [0, 9999] such that
\* amount * (10000 - bps) fits in 64 bits, min_amount_with_slippage returns
\* a value <= amount, equal to amount when bps = 0; when the product does
\* not fit it returns the overflow error and no value.
C10_MinWithinAmount ==
    (sl_pc = "min_done" /\ sl_bps \in 0..9999) =>
        IF MinProductFits
        THEN /\ sl_min.tag = "Ok"
             /\ Leq(sl_min.val, sl_amount)
             /\ sl_bps = 0 => sl_min.val = sl_amount
        ELSE sl_min = Err("Arithmetic overflow in slippage calculation")

C10_Witness ==
    /\ sl_pc = "min_done"
    /\ sl_amount = FromInt(1000000)
    /\ sl_bps = 100
    /\ sl_min = Ok(FromInt(990000))

\* the product input_amount * (10000 + slippage_bps) fits in 64 bits
MaxProductFits == Leq(Norm(MulCarry(sl_amount, TEN_THOUSAND + sl_bps, 0)), U64_MAX)

\* C11 as stated: for every u64 amount and every bps in [0, 10000]
\* max_amount_with_slippage returns a value >= amount, equal to amount when
\* bps = 0.
C11_Original ==
    (sl_pc = "max_done" /\ sl_bps \in 0..10000) =>
        /\ sl_max.tag = "Ok"
        /\ Leq(sl_amount, sl_max.val)
        /\ sl_bps = 0 => sl_max.val = sl_amount

\* C11 (amended): for every u64 amount and every bps in [0, 10000] such that
\* amount * (10000 + bps) fits in 64 bits, max_amount_with_slippage returns
\* a value >= amount, equal to amount when bps = 0; when the product does
\* not fit it returns the overflow error and no value.
C11_MaxAtLeastAmount ==
    (sl_pc = "max_done" /\ sl_bps \in 0..10000) =>
        IF MaxProductFits
        THEN /\ sl_max.tag = "Ok"
             /\ Leq(sl_amount, sl_max.val)
             /\ sl_bps = 0 => sl_max.val = sl_amount
        ELSE sl_max = Err("Arithmetic overflow in slippage calculation")

C11_Witness ==
    /\ sl_pc = "max_done"
    /\ sl_amount = U64_MAX_DIV_20000
    /\ sl_bps = 10000
    /\ sl_max.tag = "Ok"
    /\ sl_max.val = Norm(MulCarry(sl_amount, 2, 0))

IsFloorOfProduct(q, amount, factor) ==
    LET product == Norm(MulCarry(amount, factor, 0))
    IN  /\ Leq(Norm(MulCarry(q, TEN_THOUSAND, 0)), product)
        /\ ~Leq(Norm(MulCarry(Succ(q), TEN_THOUSAND, 0)), product)

\* C13: whenever they succeed, min_amount_with_slippage returns
\* floor(amount * (10000 - bps) / 10000) and max_amount_with_slippage returns
\* floor(amount * (10000 + bps) / 10000); calculate_swap_amounts returns these
\* two for a Buy (and the minimum with amount_in itself for a Sell), so that
\* amount_in = 1_000_000 and slippage_bps = 100 give 990_000 and 1_010_000.
C13_FloorOfProduct ==
    /\ (sl_pc = "min_done" /\ sl_min.tag = "Ok") =>
          IsFloorOfProduct(sl_min.val, sl_amount, TEN_THOUSAND - sl_bps)
    /\ (sl_pc = "max_done" /\ sl_max.tag = "Ok") =>
          IsFloorOfProduct(sl_max.val, sl_amount, TEN_THOUSAND + sl_bps)
    /\ (sl_pc = "amounts_done" /\ sl_amounts.tag = "Ok") =>
          /\ IsFloorOfProduct(sl_amounts.val[1], sl_amount, TEN_THOUSAND - sl_bps)
          /\ IF sl_direction = "Buy"
             THEN IsFloorOfProduct(sl_amounts.val[2], sl_amount, TEN_THOUSAND + sl_bps)
             ELSE sl_amounts.val[2] = sl_amount
    /\ (sl_pc = "amounts_done" /\ sl_direction = "Buy"
          /\ sl_amount = FromInt(1000000) /\ sl_bps = 100) =>
          sl_amounts = Ok(<<FromInt(990000), FromInt(1010000)>>)

C13_Witness ==
    /\ sl_pc = "amounts_done"
    /\ sl_direction = "Buy"
    /\ sl_amount = FromInt(1000000)
    /\ sl_bps = 100
    /\ sl_amounts = Ok(<<FromInt(990000), FromInt(1010000)>>)

(***************************************************************************)
(* Claims about Pump::swap.                                                *)
(***************************************************************************)
\* the inputs Pump::swap rejects
InvalidSwapInput ==
    \/ ~(sw_mint.base58 /\ sw_mint.bytes = 32)
    \/ sw_amount_in = <<>>
    \/ sw_slippage_bps > 5000

ValidationErrors ==
    {Err("Invalid mint address format"), Err("Swap amount cannot be zero"),
     Err("Slippage tolerance too high"),
     Err("Amount cannot be zero"), Err("Slippage too high"), Err("Invalid mint address"),
     Err("Invalid swap direction")}

\* C14: when the mint does not parse, amount_in is 0 or slippage_bps > 5000,
\* Pump::swap (called directly or through pump_swap) returns a validation
\* error, and it does so before any network call (no account is fetched, and
\* the submission, which follows the building, is not reached) and before
\* any instruction is built or any amount computed.
C14_FailFast ==
    InvalidSwapInput =>
        /\ sw_calls = NoSwapCalls
        /\ sw_amounts = NotReturned
        /\ sw_pc \in {"pump_swap", "validate", "returned"}
        /\ sw_pc = "returned" => sw_ret \in ValidationErrors
        /\ (sw_pc = "returned" /\ sw_entry = "Pump::swap") =>
              sw_ret = IF ~(sw_mint.base58 /\ sw_mint.bytes = 32)
                       THEN Err("Invalid mint address format")
                       ELSE IF sw_amount_in = <<>> THEN Err("Swap amount cannot be zero")
                       ELSE Err("Slippage tolerance too high")
        /\ pc = "idle" /\ calls = NoCalls /\ sent_txs = {}

C14_Witness ==
    /\ sw_entry = "Pump::swap"
    /\ sw_pc = "returned"
    /\ sw_mint = [base58 |-> TRUE, bytes |-> 32]
    /\ sw_amount_in = FromInt(1000000)
    /\ sw_slippage_bps = 5001
    /\ sw_ret = Err("Slippage tolerance too high")
    /\ sw_calls = NoSwapCalls

====
